---------------------------- MODULE Spec2Model ----------------------------
(***************************************************************************)
(* braket-rs: complex scalars (src/src/complex.rs), bra/ket vectors        *)
(* (src/src/vector.rs) and Hermitian operators (src/src/operator.rs).      *)
(*                                                                         *)
(* Numbers.  An f64 holding a small integer is modelled by that integer:   *)
(* +, - and * of such values are exact in IEEE double precision.  The      *)
(* quotient of two of them is modelled by the exact fraction in lowest     *)
(* terms, [num, den] with den > 0, and by den = 0 for the non-finite       *)
(* results (num = 1: +inf, num = -1: -inf, num = 0: NaN).  A quotient by a *)
(* square root is modelled by its sign and the fraction that is its        *)
(* square.  Rounding, overflow and the sign of zero are outside the model. *)
(*                                                                         *)
(* Arrays [T; D] are functions over 0 .. D-1, as the source indexes them.  *)
(***************************************************************************)
EXTENDS Integers, FiniteSets

\* the const generic parameter D of Vector<S, D> and HermitianMatrix<D>
D == 2
\* both parts of a vector component or complex operand lie in -MaxVal .. MaxVal
MaxVal == 1

Idx == 0 .. (D - 1)

Abs(x) == IF x < 0 THEN -x ELSE x

Sign(x) == IF x > 0 THEN 1 ELSE IF x < 0 THEN -1 ELSE 0

RECURSIVE Gcd(_, _)
Gcd(x, y) == IF y = 0 THEN x ELSE Gcd(y, x % y)

(***************************************************************************)
(* f64 arithmetic that leaves the integers                                 *)
(***************************************************************************)
\* x / y on f64 values that hold the integers x and y
F64_div(x, y) ==
    IF y = 0
    THEN [num |-> Sign(x), den |-> 0]
    ELSE LET g == Gcd(Abs(x), Abs(y))
         IN  [num |-> (Sign(y) * x) \div g, den |-> Abs(y) \div g]

\* f64::sqrt(r) for an integer r: the value m >= 0 with m * m = r, NaN for r < 0
F64_sqrt(r) ==
    IF r < 0
    THEN [sgn |-> 0, sq |-> [num |-> 0, den |-> 0]]
    ELSE [sgn |-> Sign(r), sq |-> [num |-> r, den |-> 1]]

\* x / m on f64 values: x holds an integer, m is a value of F64_sqrt
F64_div_sqrt(x, m) ==
    LET q == F64_div(x * x * m.sq.den, m.sq.num)
    IN  [sgn |-> IF q.den = 0 /\ q.num = 0 THEN 0 ELSE Sign(x), sq |-> q]

(***************************************************************************)
(* complex.rs                                                              *)
(***************************************************************************)
C64_new(re, im) == [re |-> re, im |-> im]

C64_zero == C64_new(0, 0)

C64_one == C64_new(1, 0)

C64_i == C64_new(0, 1)

C64_conj_keep_sign(self) == [re |-> self.re, im |-> self.im]

C64_conj(self) == [re |-> self.re, im |-> -self.im]

C64_add(self, rhs) == [re |-> self.re + rhs.re, im |-> self.im + rhs.im]

C64_mul(self, rhs) ==
    [re |-> self.re * rhs.re - self.im * rhs.im,
     im |-> self.re * rhs.im + self.im * rhs.re]

\* the textbook quotient, whose denominator is the squared modulus of the divisor
C64_div_by_divisor_modulus(self, rhs) ==
    LET denom == rhs.re * rhs.re + rhs.im * rhs.im
    IN  [re |-> F64_div(self.re * rhs.re + self.im * rhs.im, denom),
         im |-> F64_div(self.im * rhs.re - self.re * rhs.im, denom)]

C64_div(self, rhs) ==
    LET denom == self.re * self.re + self.im * self.im
        re == F64_div(rhs.re * self.re + rhs.im * self.im, denom)
        im == F64_div(rhs.im * self.re - rhs.re * self.im, denom)
    IN  [re |-> re, im |-> im]

C64_div_f64(self, rhs) ==
    [re |-> F64_div_sqrt(self.re, rhs), im |-> F64_div_sqrt(self.im, rhs)]

\* the complex operands and vector components the model draws
Scalars == [re : (-MaxVal) .. MaxVal, im : (-MaxVal) .. MaxVal]


(***************************************************************************)
(* vector.rs                                                               *)
(***************************************************************************)
C64_default == C64_zero

Vector_new == [i \in Idx |-> C64_default]

Bra_to_ket(self) == [i \in Idx |-> C64_conj(self[i])]

\* copies the components without conjugating them
Ket_to_bra_copy(self) == [i \in Idx |-> self[i]]

Ket_to_bra(self) == [i \in Idx |-> C64_conj(self[i])]

\* the zip/fold of impl Mul<&Vector<Ket, D>> for &Vector<Bra, D>, from index i on
RECURSIVE Zip_fold(_, _, _, _)
Zip_fold(self, rhs, i, acc) ==
    IF i = D
    THEN acc
    ELSE Zip_fold(self, rhs, i + 1, C64_add(acc, C64_mul(self[i], rhs[i])))

\* the sesquilinear product, which conjugates the bra's components first
Bra_mul_Ket_conjugating(self, rhs) ==
    Zip_fold([i \in Idx |-> C64_conj(self[i])], rhs, 0, C64_new(0, 0))

Bra_mul_Ket(self, rhs) == Zip_fold(self, rhs, 0, C64_new(0, 0))

Bra_inner_product(self, dual) == Bra_mul_Ket(self, dual)

Ket_inner_product(self, dual) == Bra_mul_Ket(dual, self)

\* normalize(&mut self): the locals ip and magnitude, and self as it is left
Bra_normalize(self) ==
    LET ip == Bra_inner_product(self, Bra_to_ket(self))
        magnitude == F64_sqrt(ip.re + ip.im)
    IN  [ip |-> ip, magnitude |-> magnitude,
         self |-> [i \in Idx |-> C64_div_f64(self[i], magnitude)]]

\* divides by the modulus of the inner product instead
Ket_normalize_by_modulus(self) ==
    LET ip == Ket_inner_product(self, Ket_to_bra(self))
        magnitude == F64_sqrt(ip.re * ip.re + ip.im * ip.im)
    IN  [ip |-> ip, magnitude |-> magnitude,
         self |-> [i \in Idx |-> C64_div_f64(self[i], magnitude)]]

Ket_normalize(self) ==
    LET ip == Ket_inner_product(self, Ket_to_bra(self))
        magnitude == F64_sqrt(ip.re + ip.im)
    IN  [ip |-> ip, magnitude |-> magnitude,
         self |-> [i \in Idx |-> C64_div_f64(self[i], magnitude)]]

\* the loop over ridx of impl Mul<&HermitianMatrix<D>> for &Vector<Bra, D>:
\* the inner loop over cidx assigns every component of out_bra
RECURSIVE Row_loop(_, _, _, _)
Row_loop(self, rhs, ridx, out_bra) ==
    IF ridx = D
    THEN out_bra
    ELSE Row_loop(self, rhs, ridx + 1,
                  [cidx \in Idx |-> C64_mul(self[ridx], rhs.inner[ridx][cidx])])

Bra_mul_HermitianMatrix(self, rhs) == Row_loop(self, rhs, 0, Vector_new)

(***************************************************************************)
(* operator.rs                                                             *)
(***************************************************************************)
HermitianPropertiesNotSatisfied == "HermitianPropertiesNotSatisfied"

Ok(v) == [ok |-> TRUE, val |-> v]

Err(e) == [ok |-> FALSE, err |-> e]

\* compares only the pairs above the diagonal
HermitianMatrix_from_arr_upper(arr) ==
    IF \E ridx \in Idx : \E cidx \in Idx :
          ridx < cidx /\ arr[ridx][cidx] # C64_conj(arr[cidx][ridx])
    THEN Err(HermitianPropertiesNotSatisfied)
    ELSE Ok([inner |-> arr])

HermitianMatrix_from_arr(arr) ==
    IF \E ridx \in Idx : \E cidx \in Idx :
          arr[ridx][cidx] # C64_conj(arr[cidx][ridx])
    THEN Err(HermitianPropertiesNotSatisfied)
    ELSE Ok([inner |-> arr])

\* the zip loop of one row: out += m * v, from column j on
RECURSIVE Zip_loop(_, _, _, _)
Zip_loop(row, rhs, j, out) ==
    IF j = D
    THEN out
    ELSE Zip_loop(row, rhs, j + 1, C64_add(out, C64_mul(row[j], rhs[j])))

\* walks the column ridx of the matrix instead of its row
HermitianMatrix_mul_Ket_by_column(self, rhs) ==
    [ridx \in Idx |->
        Zip_loop([j \in Idx |-> self.inner[j][ridx]], rhs, 0, C64_zero)]

\* out = m * v: keeps the last product of each row
HermitianMatrix_mul_Ket_last(self, rhs) ==
    [ridx \in Idx |-> C64_mul(self.inner[ridx][D - 1], rhs[D - 1])]

HermitianMatrix_mul_Ket(self, rhs) ==
    [ridx \in Idx |-> Zip_loop(self.inner[ridx], rhs, 0, C64_zero)]

(***************************************************************************)
(* the values the model draws                                              *)
(***************************************************************************)
Kets == [Idx -> Scalars]

Bras == [Idx -> Scalars]

\* components of the vectors that are paired with a second vector or an operator
SmallScalars == [re : 0 .. 1, im : (-1) .. 1]

SmallKets == [Idx -> SmallScalars]

SmallBras == [Idx -> SmallScalars]

\* entries of candidate grids: zero(), one(), i() and i().conj()
GridScalars == {C64_zero, C64_one, C64_i, C64_conj(C64_i)}

Grids == [Idx -> [Idx -> GridScalars]]

ZeroGrid == [ridx \in Idx |-> [cidx \in Idx |-> C64_zero]]

\* [[one, zero, ..], [zero, one, ..], ..] of test_hm_identity_on_ket
IdentityGrid ==
    [ridx \in Idx |-> [cidx \in Idx |-> IF ridx = cidx THEN C64_one ELSE C64_zero]]

\* the operator values from_arr hands out for the candidate grids
Ops ==
    {HermitianMatrix_from_arr(g).val :
        g \in {h \in Grids : HermitianMatrix_from_arr(h).ok}}

(***************************************************************************)
(* State: the values a caller holds, the last operation it called and what *)
(* that operation returned.                                                *)
(***************************************************************************)
VARIABLES
    a,          \* a complex scalar, the left operand of / and /=
    b,          \* a complex scalar, the right operand
    ket,        \* a Vector<Ket, D>
    bra,        \* a Vector<Bra, D>
    grid,       \* a candidate [[C64; D]; D] for from_arr
    op,         \* a HermitianMatrix<D> the caller obtained
    last,       \* the operation called last
    ret,        \* its return value
    old,        \* *self as the last &mut self operation (/=, normalize) found it
    ip,         \* the local ip of the last normalize
    magnitude   \* the local magnitude of the last normalize

vars == <<a, b, ket, bra, grid, op, last, ret, old, ip, magnitude>>

\* nothing called yet, and every value a caller did not set at its default
Fresh ==
    /\ last = "new"
    /\ ret = C64_default
    /\ old = C64_default
    /\ ip = C64_default
    /\ magnitude = F64_sqrt(0)

\* every value the caller holds is still an integer-valued f64: the model follows
\* a caller until a /= or a normalize has left the integers
Exact == last \notin {"C64::div_assign", "Ket::normalize", "Bra::normalize"}

InitComplex ==
    /\ a \in Scalars
    /\ b \in Scalars
    /\ ket = Vector_new
    /\ bra = Vector_new
    /\ grid = ZeroGrid
    /\ op = [inner |-> ZeroGrid]
    /\ Fresh

InitDual ==
    /\ a = C64_default
    /\ b = C64_default
    /\ \/ ket \in Kets /\ bra = Vector_new
       \/ bra \in Bras /\ ket = Vector_new
    /\ grid = ZeroGrid
    /\ op = [inner |-> ZeroGrid]
    /\ Fresh

InitInner ==
    /\ a = C64_default
    /\ b = C64_default
    /\ ket \in SmallKets
    /\ bra \in SmallBras
    /\ grid = ZeroGrid
    /\ op = [inner |-> ZeroGrid]
    /\ Fresh

InitFromArr ==
    /\ a = C64_default
    /\ b = C64_default
    /\ ket = Vector_new
    /\ bra = Vector_new
    /\ grid \in Grids
    /\ op = [inner |-> ZeroGrid]
    /\ Fresh

InitApply ==
    /\ a = C64_default
    /\ b = C64_default
    /\ ket \in SmallKets
    /\ bra = Vector_new
    /\ op \in Ops
    /\ grid = op.inner
    /\ Fresh

InitDualAction ==
    /\ a = C64_default
    /\ b = C64_default
    /\ ket \in SmallKets
    /\ bra \in SmallBras
    /\ op \in Ops
    /\ grid = op.inner
    /\ Fresh

(***************************************************************************)
(* complex.rs: a / b and a /= b                                            *)
(***************************************************************************)
Div ==
    /\ Exact
    /\ a \in Scalars
    /\ b \in Scalars
    /\ ret' = C64_div(a, b)
    /\ last' = "C64::div"
    /\ UNCHANGED <<a, b, ket, bra, grid, op, ip, magnitude, old>>

DivAssign ==
    /\ Exact
    /\ a \in Scalars
    /\ b \in Scalars
    /\ a' = C64_div(a, b)
    /\ old' = a
    /\ last' = "C64::div_assign"
    /\ UNCHANGED <<b, ket, bra, grid, op, ret, ip, magnitude>>

(***************************************************************************)
(* vector.rs: conversions, inner products, normalize, bra * operator       *)
(***************************************************************************)
\* let bra = ket.to_bra()
KetToBra ==
    /\ Exact
    /\ ket \in Kets
    /\ bra' = Ket_to_bra(ket)
    /\ last' = "Ket::to_bra"
    /\ UNCHANGED <<a, b, ket, grid, op, ret, ip, magnitude, old>>

\* let ket = bra.to_ket()
BraToKet ==
    /\ Exact
    /\ bra \in Bras
    /\ ket' = Bra_to_ket(bra)
    /\ last' = "Bra::to_ket"
    /\ UNCHANGED <<a, b, bra, grid, op, ret, ip, magnitude, old>>

BraInnerProduct ==
    /\ Exact
    /\ bra \in Bras
    /\ ket \in Kets
    /\ ret' = Bra_inner_product(bra, ket)
    /\ last' = "Bra::inner_product"
    /\ UNCHANGED <<a, b, ket, bra, grid, op, ip, magnitude, old>>

KetInnerProduct ==
    /\ Exact
    /\ bra \in Bras
    /\ ket \in Kets
    /\ ret' = Ket_inner_product(ket, bra)
    /\ last' = "Ket::inner_product"
    /\ UNCHANGED <<a, b, ket, bra, grid, op, ip, magnitude, old>>

\* &bra * &ket
BraMulKet ==
    /\ Exact
    /\ bra \in Bras
    /\ ket \in Kets
    /\ ret' = Bra_mul_Ket(bra, ket)
    /\ last' = "Bra::mul(Ket)"
    /\ UNCHANGED <<a, b, ket, bra, grid, op, ip, magnitude, old>>

KetNormalize ==
    /\ Exact
    /\ ket \in Kets
    /\ LET n == Ket_normalize(ket)
       IN  /\ ket' = n.self
           /\ ip' = n.ip
           /\ magnitude' = n.magnitude
    /\ old' = ket
    /\ last' = "Ket::normalize"
    /\ UNCHANGED <<a, b, bra, grid, op, ret>>

BraNormalize ==
    /\ Exact
    /\ bra \in Bras
    /\ LET n == Bra_normalize(bra)
       IN  /\ bra' = n.self
           /\ ip' = n.ip
           /\ magnitude' = n.magnitude
    /\ old' = bra
    /\ last' = "Bra::normalize"
    /\ UNCHANGED <<a, b, ket, grid, op, ret>>

\* &bra * &op
BraMulOp ==
    /\ Exact
    /\ bra \in Bras
    /\ ret' = Bra_mul_HermitianMatrix(bra, op)
    /\ last' = "Bra::mul(HermitianMatrix)"
    /\ UNCHANGED <<a, b, ket, bra, grid, op, ip, magnitude, old>>

(***************************************************************************)
(* operator.rs: from_arr and operator * ket                                *)
(***************************************************************************)
\* HermitianMatrix::from_arr(grid); the caller keeps the value of an Ok
FromArr ==
    /\ Exact
    /\ ret' = HermitianMatrix_from_arr(grid)
    /\ op' = IF ret'.ok THEN ret'.val ELSE op
    /\ last' = "HermitianMatrix::from_arr"
    /\ UNCHANGED <<a, b, ket, bra, grid, ip, magnitude, old>>

\* op * ket
OpMulKet ==
    /\ Exact
    /\ ket \in Kets
    /\ ret' = HermitianMatrix_mul_Ket(op, ket)
    /\ last' = "HermitianMatrix::mul(Ket)"
    /\ UNCHANGED <<a, b, ket, bra, grid, op, ip, magnitude, old>>

\* HermitianMatrix::from_arr(identity).unwrap() * ket, as test_hm_identity_on_ket
IdentityOnKet ==
    /\ Exact
    /\ ket \in Kets
    /\ grid' = IdentityGrid
    /\ LET r == HermitianMatrix_from_arr(IdentityGrid)
       IN  IF r.ok
           THEN /\ op' = r.val
                /\ ret' = HermitianMatrix_mul_Ket(r.val, ket)
                /\ last' = "identity * ket"
           ELSE /\ op' = op
                /\ ret' = r
                /\ last' = "unwrap panicked"
    /\ UNCHANGED <<a, b, ket, bra, ip, magnitude, old>>

\* (&(&bra * &op)).inner_product(&ket) and bra.inner_product(&(op * ket))
BraOpKet ==
    /\ Exact
    /\ bra \in Bras
    /\ ket \in Kets
    /\ ret' = [left |-> Bra_inner_product(Bra_mul_HermitianMatrix(bra, op), ket),
               right |-> Bra_inner_product(bra, HermitianMatrix_mul_Ket(op, ket))]
    /\ last' = "bra * op * ket"
    /\ UNCHANGED <<a, b, ket, bra, grid, op, ip, magnitude, old>>

(***************************************************************************)
(* Specifications, one per family of operations                            *)
(***************************************************************************)
NextComplex == Div \/ DivAssign

SpecComplex == InitComplex /\ [][NextComplex]_vars

NextDual == KetToBra \/ BraToKet \/ KetNormalize \/ BraNormalize

SpecDual == InitDual /\ [][NextDual]_vars

NextInner == BraInnerProduct \/ KetInnerProduct \/ BraMulKet

SpecInner == InitInner /\ [][NextInner]_vars

NextFromArr == FromArr

SpecFromArr == InitFromArr /\ [][NextFromArr]_vars

NextApply == OpMulKet \/ IdentityOnKet

SpecApply == InitApply /\ [][NextApply]_vars

NextDualAction == BraMulOp \/ BraOpKet

SpecDualAction == InitDualAction /\ [][NextDualAction]_vars

Init ==
    \/ InitComplex
    \/ InitDual
    \/ InitInner
    \/ InitFromArr
    \/ InitApply
    \/ InitDualAction

Next ==
    \/ NextComplex
    \/ NextDual
    \/ NextInner
    \/ NextFromArr
    \/ NextApply
    \/ NextDualAction

Spec == Init /\ [][Next]_vars

(***************************************************************************)
(* Properties.  The expected values are written from the statements, with  *)
(* plain integer sums and products, not with the operators above.          *)
(***************************************************************************)
RECURSIVE Sum(_, _)
Sum(f, S) ==
    IF S = {}
    THEN 0
    ELSE LET x == CHOOSE y \in S : TRUE
         IN  f[x] + Sum(f, S \ {x})

\* the real and imaginary part of the product of the complex numbers x and y
ProdRe(x, y) == x.re * y.re - x.im * y.im

ProdIm(x, y) == x.re * y.im + x.im * y.re

\* m[i][j] == conj(m[j][i]) for all i, j
IsHermitian(m) ==
    \A i \in Idx : \A j \in Idx :
        m[i][j].re = m[j][i].re /\ m[i][j].im = -m[j][i].im

\* q is the f64 quotient n / d, for d >= 0
IsQuotient(q, n, d) ==
    IF d > 0
    THEN q.den > 0 /\ q.num * d = n * q.den
    ELSE q.den = 0 /\ q.num = Sign(n)

\* q is the f64 quotient x / m, where m >= 0 and m * m = r
IsQuotientBySqrt(q, x, r) ==
    /\ IsQuotient(q.sq, x * x, r)
    /\ q.sgn = (IF r = 0 /\ x = 0 THEN 0 ELSE Sign(x))

\* sum over i of bra[i] * ket[i], nothing conjugated
PlainSum(u, v) ==
    [re |-> Sum([i \in Idx |-> ProdRe(u[i], v[i])], Idx),
     im |-> Sum([i \in Idx |-> ProdIm(u[i], v[i])], Idx)]

Conjugated(v) == [i \in Idx |-> [re |-> v[i].re, im |-> 0 - v[i].im]]

SquaredNorm(v) == Sum([i \in Idx |-> v[i].re * v[i].re + v[i].im * v[i].im], Idx)

PauliZ == <<<<C64_new(1, 0), C64_new(0, 0)>>, <<C64_new(0, 0), C64_new(-1, 0)>>>>

\* [[(1,0),(0.25,0.75)],[(0.75,0.25),(1,0)]] with every part multiplied by 4
NotHermitianExample ==
    <<<<C64_new(4, 0), C64_new(1, 3)>>, <<C64_new(3, 1), C64_new(4, 0)>>>>

\* a literal 2 x 2 grid as an array over 0 .. 1
Grid2(g) == [ridx \in 0 .. 1 |-> [cidx \in 0 .. 1 |-> g[ridx + 1][cidx + 1]]]

\* C1: from_arr(M) is Ok holding exactly M iff M[i][j] == conj(M[j][i]) for all
\* i, j (the diagonal included), and is otherwise the one error
\* HermitianPropertiesNotSatisfied, with no operator value; so every operator
\* value a caller holds is Hermitian.  The rejected example of the tests is
\* rejected and Pauli-Z is accepted.
C1_FromArrGate ==
    /\ last = "HermitianMatrix::from_arr" =>
          IF IsHermitian(grid)
          THEN ret = [ok |-> TRUE, val |-> [inner |-> grid]] /\ op.inner = grid
          ELSE /\ ret = [ok |-> FALSE, err |-> "HermitianPropertiesNotSatisfied"]
               /\ op.inner = ZeroGrid
    /\ IsHermitian(op.inner)
    /\ D = 2 =>
          /\ HermitianMatrix_from_arr(Grid2(PauliZ)) =
                [ok |-> TRUE, val |-> [inner |-> Grid2(PauliZ)]]
          /\ ~HermitianMatrix_from_arr(Grid2(NotHermitianExample)).ok

\* C1 witness: a grid whose off-diagonal pairs are mutual conjugates was rejected
\* for an imaginary diagonal entry
C1_Witness ==
    /\ last = "HermitianMatrix::from_arr"
    /\ ~ret.ok
    /\ \A i \in Idx : \A j \in Idx :
          i # j => grid[i][j].re = grid[j][i].re /\ grid[i][j].im = -grid[j][i].im
    /\ \E i \in Idx : grid[i][i].im # 0

\* C2: b * op is the bra whose j-th component is the sum over all rows i of
\* b[i] * op[i][j]
C2_DualActionAccumulates ==
    last = "Bra::mul(HermitianMatrix)" =>
        \A j \in Idx :
            /\ ret[j].re = Sum([i \in Idx |-> ProdRe(bra[i], op.inner[i][j])], Idx)
            /\ ret[j].im = Sum([i \in Idx |-> ProdIm(bra[i], op.inner[i][j])], Idx)

\* C3: op * k is the ket whose i-th component is the sum over j of
\* op[i][j] * k[j]
C3_MatrixVectorProduct ==
    last = "HermitianMatrix::mul(Ket)" =>
        \A i \in Idx :
            /\ ret[i].re = Sum([j \in Idx |-> ProdRe(op.inner[i][j], ket[j])], Idx)
            /\ ret[i].im = Sum([j \in Idx |-> ProdIm(op.inner[i][j], ket[j])], Idx)

\* C3 witness: a product with an imaginary off-diagonal entry and two non-zero
\* terms in row 0
C3_Witness ==
    /\ last = "HermitianMatrix::mul(Ket)"
    /\ D >= 2
    /\ op.inner[0][1].im # 0
    /\ op.inner[0][0] # C64_zero
    /\ ket[0] # C64_zero
    /\ ket[1].re # 0 /\ ket[1].im # 0

\* C4: the inner product is the sum over i of b[i] * k[i] with no conjugation
\* of the bra, and bra.inner_product(ket), ket.inner_product(bra) and
\* &bra * &ket return the same scalar
C4_InnerProduct ==
    /\ last \in {"Bra::inner_product", "Ket::inner_product", "Bra::mul(Ket)"} =>
          ret = PlainSum(bra, ket)
    /\ Exact =>
          /\ Bra_inner_product(bra, ket) = Ket_inner_product(ket, bra)
          /\ Ket_inner_product(ket, bra) = Bra_mul_Ket(bra, ket)

\* C4 witness: ket.inner_product(bra) returned for a bra with an imaginary
\* component against a non-zero ket component, where conjugating would differ
C4_Witness ==
    /\ last = "Ket::inner_product"
    /\ \E i \in Idx : bra[i].im # 0 /\ ket[i] # C64_zero
    /\ ret # PlainSum(Conjugated(bra), ket)

\* C5: to_bra(v)[i] == conj(v[i]) for every i, to_ket(to_bra(v)) equals v,
\* to_bra(to_ket(b)) equals b, and the source vector is left unchanged
C5_ConjugateTransposeInvolution ==
    [][/\ (Exact /\ last' = "Ket::to_bra") =>
            /\ ket' = ket
            /\ \A i \in Idx : bra'[i].re = ket[i].re /\ bra'[i].im = -ket[i].im
       /\ (Exact /\ last' = "Bra::to_ket") =>
            /\ bra' = bra
            /\ \A i \in Idx : ket'[i].re = bra[i].re /\ ket'[i].im = -bra[i].im
       /\ (last = "Ket::to_bra" /\ last' = "Bra::to_ket") => ket' = ket
       /\ (last = "Bra::to_ket" /\ last' = "Ket::to_bra") => bra' = bra]_vars

\* C5 witness: a ket with an imaginary component was taken to its bra and the
\* bra back to a ket
C5_Witness ==
    /\ last = "Bra::to_ket"
    /\ bra = Conjugated(ket)
    /\ \E i \in Idx : ket[i].im # 0 /\ ket[i].re # 0

\* C6: from_arr accepts the identity grid, and the identity operator applied
\* to a ket returns a ket equal to it in every component
C6_IdentityFixedPoint ==
    /\ last # "unwrap panicked"
    /\ last = "identity * ket" =>
          /\ \A i \in Idx : \A j \in Idx :
                op.inner[i][j] = (IF i = j THEN [re |-> 1, im |-> 0]
                                           ELSE [re |-> 0, im |-> 0])
          /\ \A i \in Idx : ret[i] = ket[i]

\* C6 witness: the identity was applied to a ket with no zero component
C6_Witness ==
    /\ last = "identity * ket"
    /\ \A i \in Idx : ket[i].re # 0 /\ ket[i].im # 0
    /\ ret = ket

\* [(1,0),(0,1)]
NormalizeExample == [i \in 0 .. 1 |-> IF i = 0 THEN C64_new(1, 0) ELSE C64_new(0, 1)]

\* 1 / sqrt 2 and 0, as F64_div_sqrt writes them
OneOverSqrt2 == [sgn |-> 1, sq |-> [num |-> 1, den |-> 2]]

ZeroOverSqrt2 == [sgn |-> 0, sq |-> [num |-> 0, den |-> 1]]

\* [(1/sqrt 2, 0), (0, 1/sqrt 2)]
NormalizedExample ==
    [i \in 0 .. 1 |-> IF i = 0 THEN [re |-> OneOverSqrt2, im |-> ZeroOverSqrt2]
                               ELSE [re |-> ZeroOverSqrt2, im |-> OneOverSqrt2]]

\* normalize took v to w, with the locals p (ip) and m (magnitude)
NormalizedAs(v, w, p, m) ==
    /\ p = PlainSum(v, Conjugated(v))
    /\ m.sgn >= 0
    /\ IsQuotient(m.sq, p.re + p.im, 1)
    /\ \A i \in Idx :
          /\ IsQuotientBySqrt(w[i].re, v[i].re, p.re + p.im)
          /\ IsQuotientBySqrt(w[i].im, v[i].im, p.re + p.im)
    /\ (D = 2 /\ v = NormalizeExample) =>
          /\ p.re + p.im = 2
          /\ w = NormalizedExample

\* C7: normalize(v) computes ip = inner_product(v, conjugate_transpose(v)), a
\* magnitude m with m * m = ip.re + ip.im, and replaces every component by
\* that component divided by m; [(1,0),(0,1)] has radicand 2 and becomes
\* [(1/sqrt 2, 0), (0, 1/sqrt 2)]
C7_Normalize ==
    /\ last = "Ket::normalize" => NormalizedAs(old, ket, ip, magnitude)
    /\ last = "Bra::normalize" => NormalizedAs(old, bra, ip, magnitude)

\* C7 witness: the ket [(1,0),(0,1)] was normalized with radicand 2
C7_Witness ==
    /\ last = "Ket::normalize"
    /\ D = 2
    /\ old = NormalizeExample
    /\ ket = NormalizedExample
    /\ ip.re + ip.im = 2
    /\ magnitude.sq = [num |-> 2, den |-> 1]

\* C8: a / b is (re', im') with re' = (b.re*a.re + b.im*a.im)/denom and
\* im' = (b.im*a.re - b.re*a.im)/denom, where denom = a.re^2 + a.im^2 comes
\* from the dividend a; a /= b stores this value in a
C8_Division ==
    /\ last = "C64::div" =>
          /\ IsQuotient(ret.re, b.re * a.re + b.im * a.im, a.re * a.re + a.im * a.im)
          /\ IsQuotient(ret.im, b.im * a.re - b.re * a.im, a.re * a.re + a.im * a.im)
    /\ last = "C64::div_assign" =>
          /\ IsQuotient(a.re, b.re * old.re + b.im * old.im,
                        old.re * old.re + old.im * old.im)
          /\ IsQuotient(a.im, b.im * old.re - b.re * old.im,
                        old.re * old.re + old.im * old.im)

\* C8 witness: (1,1) /= (1,0) left (1/2, -1/2) in a, where the quotient by the
\* divisor's modulus would be (1,1)
C8_Witness ==
    /\ last = "C64::div_assign"
    /\ old = [re |-> 1, im |-> 1]
    /\ b = [re |-> 1, im |-> 0]
    /\ a = [re |-> [num |-> 1, den |-> 2], im |-> [num |-> -1, den |-> 2]]

\* C9: inner_product(b * op, k) equals inner_product(b, op * k)
C9_DualActionConsistent ==
    last = "bra * op * ket" => ret.left = ret.right

\* C10: inside normalize, the inner product of v with its conjugate transpose
\* has imaginary part exactly 0 and real part the sum over i of
\* v[i].re^2 + v[i].im^2, so the radicand ip.re + ip.im is the squared L2 norm
\* of v and is never negative
C10_RadicandIsSquaredNorm ==
    last \in {"Ket::normalize", "Bra::normalize"} =>
        /\ ip.im = 0
        /\ ip.re = SquaredNorm(old)
        /\ ip.re + ip.im = SquaredNorm(old)
        /\ ip.re + ip.im >= 0
        /\ magnitude.sq.den = 1

\* C10 witness: a bra whose components all have both parts non-zero was
\* normalized with a real inner product
C10_Witness ==
    /\ last = "Bra::normalize"
    /\ ip.im = 0
    /\ ip.re = 2 * D
    /\ \A i \in Idx : old[i].re # 0 /\ old[i].im = -1

=============================================================================
